---- MODULE Spec2Model ----
(***************************************************************************)
(* A model of simpleperf.py: the client orchestrator                       *)
(* (create_parallel_connections), the client sessions (client_connection), *)
(* the server acceptor (server_mode) and the server sessions               *)
(* (handle_client), with the two byte streams of every TCP connection and  *)
(* the clock read by time.time().                                          *)
(*                                                                         *)
(* Time is counted in ticks; MIN_DURATION (0.1 s) is one tick, so a second *)
(* is 10 ticks.  Two reads of the clock may return the same value.         *)
(* The clock advances from one                                             *)
(* instant that a session compares its readings with to another, and only  *)
(* while some session is measuring time; the 5 s timer of a blocked socket *)
(* call is the socket's own and may expire whenever the call is blocked.   *)
(***************************************************************************)
EXTENDS Integers, Sequences, FiniteSets, TLC

\* ------------------------------------------------------------------ bounds
\* largest number of parallel client sessions (-P) drawn in Init
MaxParallel == 2
\* largest duration (-t), in seconds, drawn in Init
MaxTime == 2
\* largest interval length (-i), in seconds, drawn in Init
MaxInterval == 1
\* a session without byte cap sends at most this many chunks before its
\* duration is reached
MaxChunks == 2
\* capacity in bytes of one direction of a connection (kernel buffers)
SockBuf == 1000

\* ------------------------------------------------------- program constants
BUFFER_SIZE == 1000
\* min_duration = 0.1 (seconds), the unit of the model's clock
MIN_DURATION == 1
Second == 10 * MIN_DURATION
DEFAULT_FORMAT == <<"M", "B">>
BYE == <<"B", "Y", "E">>
ACK == <<"A", "C", "K", ":", " ", "B", "Y", "E">>

Min(a, b) == IF a <= b THEN a ELSE b

\* a string is the sequence of its characters.  The values of -n drawn in
\* Init: "", "0 B", "1 KB" and "1500 B"
NumInputs ==
    { <<>>, <<"0", " ", "B">>, <<"1", " ", "K", "B">>, <<"1", "5", "0", "0", " ", "B">> }

\* units = {'B': 1, 'KB': 1000, 'MB': 1000000}
units ==
    [u \in {<<"B">>, <<"K", "B">>, <<"M", "B">>} |->
        CASE u = <<"B">> -> 1 [] u = <<"K", "B">> -> 1000 [] u = <<"M", "B">> -> 1000000]

\* size / units[unit], as the exact fraction
format_size(size, unit) == [num |-> size, den |-> units[unit]]

\* (data * 8 / 1000000) / elapsed_time in Mbps, as the exact fraction;
\* elapsed_time is in ticks.  Python raises ZeroDivisionError for
\* elapsed_time = 0: the callers below model that.
calculate_rate(data, elapsed_time) == [num |-> data * 8 * Second, den |-> 1000000 * elapsed_time]

\* str.strip().split(): the maximal runs of characters other than blanks
RECURSIVE split(_)
split(s) ==
    IF s = <<>> THEN <<>>
    ELSE IF Head(s) = " " THEN split(Tail(s))
    ELSE LET n == CHOOSE k \in 1..Len(s) :
                     /\ \A j \in 1..k : s[j] # " "
                     /\ k = Len(s) \/ s[k + 1] = " "
         IN <<SubSeq(s, 1, n)>> \o split(SubSeq(s, n + 1, Len(s)))

Digits == {"0", "1", "2", "3", "4", "5", "6", "7", "8", "9"}
DigitValue(c) ==
    CASE c = "0" -> 0 [] c = "1" -> 1 [] c = "2" -> 2 [] c = "3" -> 3 [] c = "4" -> 4
      [] c = "5" -> 5 [] c = "6" -> 6 [] c = "7" -> 7 [] c = "8" -> 8 [] c = "9" -> 9
RECURSIVE DigitsValue(_)
DigitsValue(d) ==
    IF d = <<>> THEN 0 ELSE 10 * DigitsValue(SubSeq(d, 1, Len(d) - 1)) + DigitValue(d[Len(d)])

\* int(tok) of a token without blanks: an optional sign and at least one
\* decimal digit; anything else raises ValueError
Unsigned(tok) == IF Head(tok) \in {"+", "-"} THEN Tail(tok) ELSE tok
IsInt(tok) == Len(Unsigned(tok)) > 0 /\ \A j \in 1..Len(Unsigned(tok)) : Unsigned(tok)[j] \in Digits
int(tok) == IF Head(tok) = "-" THEN 0 - DigitsValue(Unsigned(tok)) ELSE DigitsValue(Unsigned(tok))

\* what a call of parse_num_bytes ends with: the value None, an int, or the
\* exception ValueError
None == [kind |-> "None", value |-> 0]
ValueError == [kind |-> "ValueError", value |-> 0]
Returned(v) == [kind |-> "int", value |-> v]

\* the unit of the byte count is ignored
ParseNoUnit(num_string) == Returned(int(split(num_string)[1]))

\* a unit that is not known counts as bytes
ParseAnyUnit(num_string) ==
    LET toks == split(num_string)
    IN IF Len(num_string) = 0 THEN None
       ELSE IF Len(toks) # 2 \/ ~IsInt(toks[1]) THEN ValueError
       ELSE Returned(int(toks[1]) * (IF toks[2] \in DOMAIN units THEN units[toks[2]] ELSE 1))

\* lines 122-135: None for an empty string; otherwise the two tokens of the
\* string (any other number of them fails to unpack: ValueError), int(num)
\* (ValueError if it is no integer), the unit looked up in units (ValueError
\* if it is not there), and num * units[unit]
parse_num_bytes(num_string) ==
    LET toks == split(num_string)
    IN IF Len(num_string) = 0 THEN None
       ELSE IF Len(toks) # 2 THEN ValueError
       ELSE IF ~IsInt(toks[1]) THEN ValueError
       ELSE IF toks[2] \notin DOMAIN units THEN ValueError
       ELSE Returned(int(toks[1]) * units[toks[2]])

Sessions == 1..MaxParallel

VARIABLES
    args,                \* the parsed command line (SessionConfig)
    now,                 \* the value time.time() returns, in ticks
    \* ---- create_parallel_connections
    orch_pc, spawned, joined, results_list, header_printed, printed, row_idx,
    \* ---- client_connection, one per session
    pc, start_time, total_sent, last_interval_sent, interval_start,
    interval_stop, remaining_bytes, data_to_send, elapsed_time, pending,
    deadline, acknowledgement, outcome, rows, cli_open,
    \* ---- the connection
    c2s, s2c,
    \* ---- server_mode and handle_client, one handler per accepted connection
    acc_pc, srv_pc, srv_start_time, total_received, data, srv_elapsed,
    srv_open, ack_sent, srv_printed, print_lock

orch_vars == <<orch_pc, spawned, joined, results_list, header_printed, printed, row_idx>>
cli_vars == <<pc, start_time, total_sent, last_interval_sent, interval_start,
              interval_stop, remaining_bytes, data_to_send, elapsed_time, pending,
              deadline, acknowledgement, outcome, rows, cli_open>>
loop_vars == <<total_sent, last_interval_sent, interval_start, interval_stop,
               remaining_bytes, data_to_send, elapsed_time, rows>>
chan_vars == <<c2s, s2c>>
srv_vars == <<acc_pc, srv_pc, srv_start_time, total_received, data, srv_elapsed,
              srv_open, ack_sent, srv_printed, print_lock>>
vars == <<args, now, orch_vars, cli_vars, chan_vars, srv_vars>>

NoData == [zeros |-> 0, tail |-> <<>>]

\* the command lines of a run with one session
SoloArgs ==
    [parallel : {1}, time : 1..MaxTime, interval : 0..MaxInterval, num : NumInputs,
     format : {DEFAULT_FORMAT}, server : {FALSE}, client : {TRUE}]

\* the command line of the run with parallel sessions: -P MaxParallel -t 1 -i 1 -n "1 KB"
ParArgs ==
    [parallel : {MaxParallel}, time : {1}, interval : {1}, num : {<<"1", " ", "K", "B">>},
     format : {DEFAULT_FORMAT}, server : {FALSE}, client : {TRUE}]

\* the command line of the run that loads the server with handlers: parallel
\* sessions that send the sentinel only, -P MaxParallel -t 1 -n "0 B"
SrvArgs ==
    [parallel : {MaxParallel}, time : {1}, interval : {0}, num : {<<"0", " ", "B">>},
     format : {DEFAULT_FORMAT}, server : {FALSE}, client : {TRUE}]

\* values of -n, well formed and not: "", "0 B", "1 KB", "1500 B", "2 MB",
\* " 1  KB " (blanks around and between), "-1 B", " " (no token), "1KB" (one
\* token), "1 K B" (three tokens), "1 GB" (unknown unit), "x B" and "1.5 KB"
\* (no integer)
ParseInputs ==
    NumInputs \cup
    { <<"2", " ", "M", "B">>, <<" ", "1", " ", " ", "K", "B", " ">>, <<"-", "1", " ", "B">>,
      <<" ">>, <<"1", "K", "B">>, <<"1", " ", "K", " ", "B">>, <<"1", " ", "G", "B">>,
      <<"x", " ", "B">>, <<"1", ".", "5", " ", "K", "B">> }

\* the command lines of one session with these values of -n: -t 1 -n <value>
ParseArgs ==
    [parallel : {1}, time : {1}, interval : {0}, num : ParseInputs,
     format : {DEFAULT_FORMAT}, server : {FALSE}, client : {TRUE}]

\* the command lines given to main(): with and without -s and -c, and with a
\* duration (-t) that is negative, zero or positive
MainArgs ==
    [parallel : {1}, time : (-1)..MaxTime, interval : 0..MaxInterval, num : NumInputs,
     format : {DEFAULT_FORMAT}, server : BOOLEAN, client : BOOLEAN]

\* the state of a client process at `at` in its code, with a command line
\* of A, no session started yet, and of a server that is listening
InitAt(A, at) ==
    /\ args \in A
    /\ now = 0
    /\ orch_pc = at /\ spawned = 0 /\ joined = 0 /\ results_list = <<>>
    /\ header_printed = 0 /\ printed = <<>> /\ row_idx = 0
    /\ pc = [i \in Sessions |-> "unspawned"]
    /\ start_time = [i \in Sessions |-> 0]
    /\ total_sent = [i \in Sessions |-> 0]
    /\ last_interval_sent = [i \in Sessions |-> 0]
    /\ interval_start = [i \in Sessions |-> 0]
    /\ interval_stop = [i \in Sessions |-> 0]
    /\ remaining_bytes = [i \in Sessions |-> 0]
    /\ data_to_send = [i \in Sessions |-> 0]
    /\ elapsed_time = [i \in Sessions |-> 0]
    /\ pending = [i \in Sessions |-> 0]
    /\ deadline = [i \in Sessions |-> 0]
    /\ acknowledgement = [i \in Sessions |-> <<>>]
    /\ outcome = [i \in Sessions |-> "none"]
    /\ rows = [i \in Sessions |-> <<>>]
    /\ cli_open = [i \in Sessions |-> FALSE]
    /\ c2s = [i \in Sessions |-> NoData]
    /\ s2c = [i \in Sessions |-> <<>>]
    /\ acc_pc = "listening"
    /\ srv_pc = [i \in Sessions |-> "idle"]
    /\ srv_start_time = [i \in Sessions |-> 0]
    /\ total_received = [i \in Sessions |-> 0]
    /\ data = [i \in Sessions |-> NoData]
    /\ srv_elapsed = [i \in Sessions |-> 0]
    /\ srv_open = [i \in Sessions |-> FALSE]
    /\ ack_sent = [i \in Sessions |-> 0]
    /\ srv_printed = [i \in Sessions |-> FALSE]
    /\ print_lock = 0

\* the state when main() has parsed the command line and called client_mode
InitWith(A) == InitAt(A, "spawn")

\* ------------------------------------------------------------------ clock
\* a client session is in its send loop before the duration is reached, or
\* asleep for the rest of the minimum duration
Timed(i) ==
    \/ pc[i] \in {"loop", "send"} /\ now - start_time[i] < args.time * Second
    \/ pc[i] = "sleep" /\ now < deadline[i]

\* the instants at which a reading of the clock by session i changes what the
\* session does: the end of the minimum duration, the next interval boundary,
\* the end of the duration, the end of the sleep
Thresholds(i) ==
    IF pc[i] = "sleep"
       THEN {deadline[i]}
       ELSE {start_time[i] + MIN_DURATION, start_time[i] + args.time * Second}
            \cup (IF args.interval > 0 THEN {start_time[i] + interval_stop[i]} ELSE {})

\* time passes while some session measures it, up to one of these instants
Tick ==
    /\ \E i \in Sessions :
          /\ Timed(i)
          /\ \E t \in Thresholds(i) : t > now /\ now' = t
    /\ UNCHANGED <<args, orch_vars, cli_vars, chan_vars, srv_vars>>

\* --------------------------------------------- create_parallel_connections
\* join returns for a process that has been started, still running or not
JoinNoWait(i) == pc[i] # "unspawned"

\* process.join() returns once the process has ended, by return or by exception
Terminated(i) == pc[i] \in {"done", "crashed"}

\* process = multiprocessing.Process(target=client_connection, ...); process.start()
OrchSpawn ==
    /\ orch_pc = "spawn"
    /\ spawned < args.parallel
    /\ spawned' = spawned + 1
    /\ pc' = [pc EXCEPT ![spawned + 1] = "connect"]
    /\ orch_pc' = IF spawned + 1 < args.parallel THEN "spawn" ELSE "join"
    /\ UNCHANGED <<args, now, joined, results_list, header_printed, printed, row_idx,
                   start_time, total_sent, last_interval_sent, interval_start,
                   interval_stop, remaining_bytes, data_to_send, elapsed_time, pending,
                   deadline, acknowledgement, outcome, rows, cli_open, chan_vars, srv_vars>>

\* for process in processes: process.join()
OrchJoin ==
    /\ orch_pc = "join"
    /\ joined < spawned
    /\ Terminated(joined + 1)
    /\ joined' = joined + 1
    /\ orch_pc' = IF joined + 1 < spawned THEN "join" ELSE "header"
    /\ UNCHANGED <<args, now, spawned, results_list, header_printed, printed, row_idx,
                   cli_vars, chan_vars, srv_vars>>

\* print_header(args)
OrchPrintHeader ==
    /\ orch_pc = "header"
    /\ header_printed' = header_printed + 1
    /\ row_idx' = 0
    /\ orch_pc' = "rows"
    /\ UNCHANGED <<args, now, spawned, joined, results_list, printed,
                   cli_vars, chan_vars, srv_vars>>

\* for result in results_list: print_final_result(*result, args)
\* (the list proxy is read entry by entry, by index, until it is exhausted)
OrchPrintRow ==
    /\ orch_pc = "rows"
    /\ IF row_idx < Len(results_list)
          THEN /\ printed' = Append(printed, results_list[row_idx + 1])
               /\ row_idx' = row_idx + 1
               /\ UNCHANGED orch_pc
          ELSE /\ orch_pc' = "done"
               /\ UNCHANGED <<printed, row_idx>>
    /\ UNCHANGED <<args, now, spawned, joined, results_list, header_printed,
                   cli_vars, chan_vars, srv_vars>>

\* -------------------------------------------------------- client_connection
InFlight(i) == c2s[i].zeros + Len(c2s[i].tail)
Free(i) == SockBuf - InFlight(i)

\* the variable is one object shared by all the sessions
SetShared(f, i, v) == [k \in DOMAIN f |-> v]

\* lines 423-436: a local variable of client_connection; every session is a
\* process of its own with its own locals
SetLocal(f, i, v) == [f EXCEPT ![i] = v]

\* lines 416-448: socket(), connect(), settimeout(5), the initial values and
\* parse_num_bytes(args.num) if args.num is not empty.  connect() is refused
\* once the listening socket is closed: the exception ends the process, and
\* so does the ValueError of parse_num_bytes.
ClientConnect(i) ==
    /\ pc[i] = "connect"
    /\ IF acc_pc # "listening"
          THEN /\ pc' = [pc EXCEPT ![i] = "crashed"]
               /\ outcome' = [outcome EXCEPT ![i] = "fault"]
               /\ UNCHANGED <<cli_open, srv_open, start_time, total_sent, last_interval_sent,
                              data_to_send, interval_start, interval_stop, remaining_bytes>>
          ELSE LET parsed == IF Len(args.num) > 0 THEN parse_num_bytes(args.num) ELSE None
               IN
               /\ srv_open' = [srv_open EXCEPT ![i] = TRUE]
               /\ start_time' = SetLocal(start_time, i, now)
               /\ total_sent' = SetLocal(total_sent, i, 0)
               /\ last_interval_sent' = SetLocal(last_interval_sent, i, 0)
               /\ data_to_send' = SetLocal(data_to_send, i, BUFFER_SIZE)
               /\ interval_start' = SetLocal(interval_start, i, 0)
               /\ interval_stop' = SetLocal(interval_stop, i, args.interval * Second)
               /\ IF parsed = ValueError
                     THEN \* line 448 raises: the process ends, its socket with it
                          /\ pc' = [pc EXCEPT ![i] = "crashed"]
                          /\ outcome' = [outcome EXCEPT ![i] = "value_error"]
                          /\ UNCHANGED <<cli_open, remaining_bytes>>
                     ELSE /\ pc' = [pc EXCEPT ![i] = "loop"]
                          /\ cli_open' = [cli_open EXCEPT ![i] = TRUE]
                          /\ remaining_bytes' = SetLocal(remaining_bytes, i, parsed.value)
                          /\ UNCHANGED outcome
    /\ UNCHANGED <<args, now, orch_vars, elapsed_time, pending, deadline, acknowledgement,
                   rows, chan_vars, acc_pc, srv_pc, srv_start_time, total_received, data,
                   srv_elapsed, ack_sent, srv_printed, print_lock>>

\* a row is printed in every pass of the loop, whatever the elapsed time
IntervalAlways(i, e) == args.interval > 0

\* line 454: (args.interval > 0) & (elapsed_time >= interval_stop)
IntervalDue(i, e) == args.interval > 0 /\ e >= interval_stop[i]

\* the chunk is sent whole, whatever remains of the byte cap
ClampNot(len, remaining) == len

\* line 466: data_to_send = data_to_send[:remaining_bytes]
Clamp(len, remaining) == Min(len, remaining)

\* the duration ends the loop only of a session without a byte cap
DurationUncapped(e) == e >= args.time * Second /\ Len(args.num) = 0

\* line 460: elapsed_time >= args.time
DurationReached(e) == e >= args.time * Second

\* the row reports the total sent so far, not what was sent since the last row
IntervalRowTotal(i) ==
    [start |-> interval_start[i], stop |-> interval_stop[i],
     sent |-> format_size(total_sent[i], args.format),
     rate |-> calculate_rate(total_sent[i], args.interval * Second)]

\* line 94-98, print_interval: the row printed for one interval
IntervalRow(i) ==
    [start |-> interval_start[i], stop |-> interval_stop[i],
     sent |-> format_size(total_sent[i] - last_interval_sent[i], args.format),
     rate |-> calculate_rate(total_sent[i] - last_interval_sent[i], args.interval * Second)]

\* lines 451-477: one pass of the send loop from the clock read up to the
\* call of sendall; or, at the break, remaining_duration = min_duration -
\* elapsed_time and the call of time.sleep(remaining_duration) or, with
\* nothing left to sleep, of sendall(b'BYE')
LoopTop(i) ==
    /\ pc[i] = "loop"
    /\ LET e == now - start_time[i]
           capped == Len(args.num) > 0
           len == IF capped THEN Clamp(data_to_send[i], remaining_bytes[i]) ELSE data_to_send[i]
           remaining_duration == MIN_DURATION - e
       IN
       \* the bound of the model: at most MaxChunks chunks before the duration
       /\ \/ total_sent[i] < MaxChunks * BUFFER_SIZE
          \/ e >= args.time * Second
          \/ capped /\ remaining_bytes[i] <= 0
       /\ elapsed_time' = [elapsed_time EXCEPT ![i] = e]
       /\ IF IntervalDue(i, e)
             THEN /\ rows' = [rows EXCEPT ![i] = Append(@, IntervalRow(i))]
                  /\ last_interval_sent' = [last_interval_sent EXCEPT ![i] = total_sent[i]]
                  /\ interval_start' = [interval_start EXCEPT ![i] = interval_stop[i]]
                  /\ interval_stop' = [interval_stop EXCEPT ![i] = @ + args.interval * Second]
             ELSE UNCHANGED <<rows, last_interval_sent, interval_start, interval_stop>>
       /\ IF DurationReached(e) \/ (capped /\ remaining_bytes[i] <= 0)
             THEN /\ IF remaining_duration > 0
                        THEN /\ pc' = [pc EXCEPT ![i] = "sleep"]
                             /\ deadline' = [deadline EXCEPT ![i] = now + remaining_duration]
                             /\ UNCHANGED pending
                        ELSE /\ pc' = [pc EXCEPT ![i] = "send_bye"]
                             /\ pending' = [pending EXCEPT ![i] = Len(BYE)]
                             /\ UNCHANGED deadline
                  /\ UNCHANGED <<data_to_send, remaining_bytes>>
             ELSE /\ data_to_send' = [data_to_send EXCEPT ![i] = len]
                  /\ remaining_bytes' = [remaining_bytes EXCEPT ![i] =
                         IF capped THEN @ - len ELSE @]
                  /\ pending' = [pending EXCEPT ![i] = len]
                  /\ pc' = [pc EXCEPT ![i] = "send"]
                  /\ UNCHANGED deadline
    /\ UNCHANGED <<args, now, orch_vars, start_time, total_sent, acknowledgement,
                   outcome, cli_open, chan_vars, srv_vars>>

\* line 477-480: time.sleep returns, client_socket.sendall(b'BYE') is called
SleepDone(i) ==
    /\ pc[i] = "sleep"
    /\ now >= deadline[i]
    /\ pc' = [pc EXCEPT ![i] = "send_bye"]
    /\ pending' = [pending EXCEPT ![i] = Len(BYE)]
    /\ UNCHANGED <<args, now, orch_vars, start_time, loop_vars, deadline, acknowledgement, outcome,
                   cli_open, chan_vars, srv_vars>>

\* the bytes of BYE that a sendall with `left` bytes still unsent writes next
ByePart(left, k) == SubSeq(BYE, Len(BYE) - left + 1, Len(BYE) - left + k)

\* lines 469-470 and 480: sendall writes as much as the connection takes;
\* once everything is written it returns, and the loop counts the chunk
ClientPush(i) ==
    /\ pc[i] \in {"send", "send_bye"}
    /\ pending[i] > 0
    /\ Free(i) > 0
    /\ LET k == Min(pending[i], Free(i))
       IN
       /\ pending' = [pending EXCEPT ![i] = @ - k]
       /\ IF pc[i] = "send"
             THEN /\ c2s' = [c2s EXCEPT ![i].zeros = @ + k]
                  /\ IF pending[i] = k
                        THEN /\ total_sent' = [total_sent EXCEPT ![i] = @ + data_to_send[i]]
                             /\ pc' = [pc EXCEPT ![i] = "loop"]
                        ELSE UNCHANGED <<total_sent, pc>>
             ELSE /\ c2s' = [c2s EXCEPT ![i].tail = @ \o ByePart(pending[i], k)]
                  /\ pc' = [pc EXCEPT ![i] = IF pending[i] = k THEN "recv_ack" ELSE @]
                  /\ UNCHANGED total_sent
    /\ UNCHANGED <<args, now, orch_vars, start_time, last_interval_sent, interval_start,
                   interval_stop, remaining_bytes, data_to_send, elapsed_time, deadline,
                   acknowledgement, outcome, rows, cli_open, s2c, srv_vars>>

\* sendall on a socket without a timeout: it stays blocked
SendBlocks(i) ==
    /\ pc[i] \in {"send", "send_bye"}
    /\ pending[i] > 0
    /\ Free(i) = 0
    /\ UNCHANGED vars

\* lines 421, 469, 480: the 5 s timeout set on the socket also bounds sendall,
\* which is blocked while the connection takes no more bytes; socket.timeout
\* raised there is not caught and ends the process
SendTimeout(i) ==
    /\ pc[i] \in {"send", "send_bye"}
    /\ pending[i] > 0
    /\ Free(i) = 0
    /\ pc' = [pc EXCEPT ![i] = "crashed"]
    /\ outcome' = [outcome EXCEPT ![i] = "send_timeout"]
    /\ cli_open' = [cli_open EXCEPT ![i] = FALSE]
    /\ UNCHANGED <<args, now, orch_vars, start_time, loop_vars, pending, deadline,
                   acknowledgement, chan_vars, srv_vars>>

\* the sizes recv(1024) may return: all that has arrived, or a first segment
\* of it (the four bytes b'ACK:')
AckSizes(i) == { n \in {Len(s2c[i]), 4} : 1 <= n /\ n <= Len(s2c[i]) }

\* line 484: acknowledgement = client_socket.recv(1024) returns the n bytes
\* that have arrived, or b'' when the peer has closed
ClientRecv(i) ==
    /\ pc[i] = "recv_ack"
    /\ \/ /\ Len(s2c[i]) > 0
          /\ \E n \in AckSizes(i) :
                /\ acknowledgement' = [acknowledgement EXCEPT ![i] = SubSeq(s2c[i], 1, n)]
                /\ s2c' = [s2c EXCEPT ![i] = SubSeq(@, n + 1, Len(@))]
       \/ /\ Len(s2c[i]) = 0
          /\ ~srv_open[i]
          /\ acknowledgement' = [acknowledgement EXCEPT ![i] = <<>>]
          /\ UNCHANGED s2c
    /\ pc' = [pc EXCEPT ![i] = "process"]
    /\ UNCHANGED <<args, now, orch_vars, start_time, loop_vars, pending, deadline, outcome,
                   cli_open, c2s, srv_vars>>

\* the timeout is reported but the socket is left open
RecvTimeoutNoClose(i) ==
    /\ pc[i] = "recv_ack"
    /\ Len(s2c[i]) = 0
    /\ srv_open[i]
    /\ pc' = [pc EXCEPT ![i] = "done"]
    /\ outcome' = [outcome EXCEPT ![i] = "timeout"]
    /\ UNCHANGED <<args, now, orch_vars, start_time, loop_vars, pending, deadline,
                   acknowledgement, cli_open, chan_vars, srv_vars>>

\* lines 485-488: nothing arrives within the 5 s of the socket timeout;
\* except socket.timeout: print, close, return
RecvTimeout(i) ==
    /\ pc[i] = "recv_ack"
    /\ Len(s2c[i]) = 0
    /\ srv_open[i]
    /\ pc' = [pc EXCEPT ![i] = "done"]
    /\ outcome' = [outcome EXCEPT ![i] = "timeout"]
    /\ cli_open' = [cli_open EXCEPT ![i] = FALSE]
    /\ UNCHANGED <<args, now, orch_vars, start_time, loop_vars, pending, deadline,
                   acknowledgement, chan_vars, srv_vars>>

\* the reply is only tested for its first three bytes
AckPrefix(ack) == Len(ack) >= 3 /\ SubSeq(ack, 1, 3) = <<"A", "C", "K">>

\* line 494: acknowledgement == b'ACK: BYE'
AckOk(ack) == ack = ACK

\* line 499: the tuple appended to results_list.  `session` is not part of
\* the tuple: it records which session appended the entry.
Result(i, e) ==
    [session |-> i, elapsed_time |-> e,
     sent_data |-> format_size(total_sent[i], args.format),
     rate |-> calculate_rate(total_sent[i], e)]

\* the list is replaced by one that holds the new entry only
ManagerOverwrite(list, entry) == <<entry>>

\* line 499: results_list.append(...), one call served by the manager process
ManagerAppend(list, entry) == Append(list, entry)

\* lines 490-503: the final result is appended on a valid acknowledgement,
\* an error is printed otherwise, and the socket is closed.  A zero elapsed
\* time makes calculate_rate raise ZeroDivisionError, which ends the process.
ClientProcess(i) ==
    /\ pc[i] = "process"
    /\ LET e == now - start_time[i]
       IN IF AckOk(acknowledgement[i])
             THEN IF e = 0
                     THEN /\ pc' = [pc EXCEPT ![i] = "crashed"]
                          /\ outcome' = [outcome EXCEPT ![i] = "fault"]
                          /\ UNCHANGED <<results_list, elapsed_time>>
                     ELSE /\ elapsed_time' = [elapsed_time EXCEPT ![i] = e]
                          /\ results_list' = ManagerAppend(results_list, Result(i, e))
                          /\ pc' = [pc EXCEPT ![i] = "done"]
                          /\ outcome' = [outcome EXCEPT ![i] = "ok"]
             ELSE /\ pc' = [pc EXCEPT ![i] = "done"]
                  /\ outcome' = [outcome EXCEPT ![i] = "bad_ack"]
                  /\ UNCHANGED <<results_list, elapsed_time>>
    /\ cli_open' = [cli_open EXCEPT ![i] = FALSE]
    /\ UNCHANGED <<args, now, orch_pc, spawned, joined, header_printed, printed, row_idx,
                   start_time, total_sent, last_interval_sent, interval_start,
                   interval_stop, remaining_bytes, data_to_send, rows, pending, deadline,
                   acknowledgement, chan_vars, srv_vars>>

\* a transport fault (the connection is reset) raised by the socket call the
\* session is in: the exception is not caught and ends the process
ClientFault(i) ==
    /\ pc[i] \in {"send", "send_bye", "recv_ack"}
    /\ pc' = [pc EXCEPT ![i] = "crashed"]
    /\ outcome' = [outcome EXCEPT ![i] = "fault"]
    /\ cli_open' = [cli_open EXCEPT ![i] = FALSE]
    /\ UNCHANGED <<args, now, orch_vars, start_time, loop_vars, pending, deadline,
                   acknowledgement, chan_vars, srv_vars>>

\* ------------------------------------------------------------- server_mode
\* a connection is taken and handed to a handler whether the listening
\* socket is still open or not
AcceptClosed(i) ==
    /\ srv_pc[i] = "idle"
    /\ srv_open[i]
    /\ srv_pc' = [srv_pc EXCEPT ![i] = "start"]
    /\ UNCHANGED <<args, now, orch_vars, cli_vars, chan_vars, acc_pc, srv_start_time,
                   total_received, data, srv_elapsed, srv_open, ack_sent, srv_printed,
                   print_lock>>

\* lines 291-295: accept() and the start of the handler process
Accept(i) ==
    /\ acc_pc = "listening"
    /\ srv_pc[i] = "idle"
    /\ srv_open[i]
    /\ srv_pc' = [srv_pc EXCEPT ![i] = "start"]
    /\ UNCHANGED <<args, now, orch_vars, cli_vars, chan_vars, acc_pc, srv_start_time,
                   total_received, data, srv_elapsed, srv_open, ack_sent, srv_printed,
                   print_lock>>

\* lines 289-301: an exception ends the accept loop and the finally clause
\* closes the listening socket.  It is raised while accept() blocks, or when
\* accept() has returned a connection and its handler is not started yet
\* (before line 295 has completed): that connection gets no handler and is
\* closed with the socket object when server_mode returns.
LoopExit(how) ==
    /\ acc_pc = "listening"
    /\ acc_pc' = how
    /\ \/ UNCHANGED <<srv_pc, srv_open>>
       \/ \E i \in Sessions :
             /\ srv_pc[i] = "idle"
             /\ srv_open[i]
             /\ srv_pc' = [srv_pc EXCEPT ![i] = "dropped"]
             /\ srv_open' = [srv_open EXCEPT ![i] = FALSE]
    /\ UNCHANGED <<args, now, orch_vars, cli_vars, chan_vars, srv_start_time,
                   total_received, data, srv_elapsed, ack_sent, srv_printed, print_lock>>

\* lines 296-301: KeyboardInterrupt is caught and reported, then
\* server_socket.close()
AcceptorInterrupt == LoopExit("stopped")

\* lines 287-301: any other exception raised in the loop (by accept() or by
\* the start of the process) passes through the finally clause, which closes
\* the socket, and ends server_mode
AcceptorFault == LoopExit("faulted")

\* ----------------------------------------------------------- handle_client
DataLen(d) == d.zeros + Len(d.tail)

\* the chunk with the sentinel is credited whole
CreditWhole(d) == DataLen(d)

\* line 234: len(data) - len(b'BYE')
Credit(d) == DataLen(d) - Len(BYE)

\* the chunk is only searched for the first byte of the sentinel
HasByeStart(d) == Len(d.tail) > 0

\* line 231: b'BYE' in data (the filler bytes are all b'0')
HasBye(d) == \E p \in 1..Len(d.tail) : p + 2 <= Len(d.tail) /\ SubSeq(d.tail, p, p + 2) = BYE

\* the sizes recv(BUFFER_SIZE) may return: all that has arrived (up to
\* BUFFER_SIZE), or a segment that ends at, just after or inside the sentinel
RecvSizes(i) ==
    LET full == Min(InFlight(i), BUFFER_SIZE)
    IN { n \in {full, c2s[i].zeros, c2s[i].zeros + 2} : 1 <= n /\ n <= full }

\* the first n bytes of the stream
Take(ch, n) ==
    LET k == Min(n, ch.zeros)
    IN [zeros |-> k, tail |-> SubSeq(ch.tail, 1, n - k)]
Drop(ch, n) ==
    LET k == Min(n, ch.zeros)
    IN [zeros |-> ch.zeros - k, tail |-> SubSeq(ch.tail, n - k + 1, Len(ch.tail))]

\* lines 216-226: the unlocked prints, start_time, total_received = 0, and the
\* first call of recv
HandlerStart(i) ==
    /\ srv_pc[i] = "start"
    /\ srv_start_time' = [srv_start_time EXCEPT ![i] = now]
    /\ total_received' = [total_received EXCEPT ![i] = 0]
    /\ srv_pc' = [srv_pc EXCEPT ![i] = "recv"]
    /\ UNCHANGED <<args, now, orch_vars, cli_vars, chan_vars, acc_pc, data, srv_elapsed,
                   srv_open, ack_sent, srv_printed, print_lock>>

\* lines 242-249 for a handler that leaves its loop at clock reading t:
\* connection.close(), the elapsed time, format_size and calculate_rate, which
\* raises ZeroDivisionError for a zero elapsed time and so ends the process
AfterRecvLoop(i, t) == IF t - srv_start_time[i] = 0 THEN "crashed" ELSE "lock"

\* lines 226-249: recv returns a chunk (or b'' once the peer has closed and
\* everything was read) and the loop body handles it; when the loop ends, the
\* connection is closed and the final result computed
HandlerRecv(i) ==
    /\ srv_pc[i] = "recv"
    /\ \/ /\ InFlight(i) > 0
          /\ \E n \in RecvSizes(i) :
                LET d == Take(c2s[i], n)
                IN /\ data' = [data EXCEPT ![i] = d]
                   /\ c2s' = [c2s EXCEPT ![i] = Drop(@, n)]
                   /\ IF HasBye(d)
                         THEN /\ s2c' = [s2c EXCEPT ![i] = IF cli_open[i] THEN @ \o ACK ELSE @]
                              /\ ack_sent' = [ack_sent EXCEPT ![i] = @ + 1]
                              /\ total_received' = [total_received EXCEPT ![i] = @ + Credit(d)]
                              /\ srv_open' = [srv_open EXCEPT ![i] = FALSE]
                              /\ srv_elapsed' = [srv_elapsed EXCEPT ![i] = now - srv_start_time[i]]
                              /\ srv_pc' = [srv_pc EXCEPT ![i] = AfterRecvLoop(i, now)]
                         ELSE /\ total_received' = [total_received EXCEPT ![i] = @ + DataLen(d)]
                              /\ UNCHANGED <<s2c, ack_sent, srv_pc, srv_open, srv_elapsed>>
       \/ /\ InFlight(i) = 0
          /\ ~cli_open[i]
          /\ data' = [data EXCEPT ![i] = NoData]
          /\ srv_open' = [srv_open EXCEPT ![i] = FALSE]
          /\ srv_elapsed' = [srv_elapsed EXCEPT ![i] = now - srv_start_time[i]]
          /\ srv_pc' = [srv_pc EXCEPT ![i] = AfterRecvLoop(i, now)]
          /\ UNCHANGED <<c2s, s2c, ack_sent, total_received>>
    /\ UNCHANGED <<args, now, orch_vars, cli_vars, acc_pc, srv_start_time, srv_printed,
                   print_lock>>

\* line 252: with print_lock
HandlerAcquire(i) ==
    /\ srv_pc[i] = "lock"
    /\ print_lock = 0
    /\ print_lock' = i
    /\ srv_pc' = [srv_pc EXCEPT ![i] = "print"]
    /\ UNCHANGED <<args, now, orch_vars, cli_vars, chan_vars, acc_pc, srv_start_time,
                   total_received, data, srv_elapsed, srv_open, ack_sent, srv_printed>>

\* lines 253-255: print_header, print_final_result, print("\n"), and the
\* release of the lock at the end of the with block
HandlerPrint(i) ==
    /\ srv_pc[i] = "print"
    /\ srv_printed' = [srv_printed EXCEPT ![i] = TRUE]
    /\ print_lock' = 0
    /\ srv_pc' = [srv_pc EXCEPT ![i] = "done"]
    /\ UNCHANGED <<args, now, orch_vars, cli_vars, chan_vars, acc_pc, srv_start_time,
                   total_received, data, srv_elapsed, srv_open, ack_sent>>

\* ----------------------------------------------------------- specification
\* the steps of the client side, of the connections and of the handlers up to
\* the end of their receive loops
NextSessions ==
    \/ Tick
    \/ OrchSpawn
    \/ OrchJoin
    \/ OrchPrintHeader
    \/ OrchPrintRow
    \/ \E i \in Sessions : ClientConnect(i)
    \/ \E i \in Sessions : LoopTop(i)
    \/ \E i \in Sessions : SleepDone(i)
    \/ \E i \in Sessions : ClientPush(i)
    \/ \E i \in Sessions : SendTimeout(i)
    \/ \E i \in Sessions : ClientRecv(i)
    \/ \E i \in Sessions : RecvTimeout(i)
    \/ \E i \in Sessions : ClientProcess(i)
    \/ \E i \in Sessions : ClientFault(i)
    \/ \E i \in Sessions : Accept(i)
    \/ \E i \in Sessions : HandlerStart(i)
    \/ \E i \in Sessions : HandlerRecv(i)

Next ==
    \/ NextSessions
    \/ AcceptorInterrupt
    \/ AcceptorFault
    \/ \E i \in Sessions : HandlerAcquire(i)
    \/ \E i \in Sessions : HandlerPrint(i)

Init == InitWith(SoloArgs)
InitPar == InitWith(ParArgs)

\* one client session, its connection, the acceptor and the handler
Spec == Init /\ [][Next]_vars

\* MaxParallel client sessions with their connections and handlers, the
\* acceptor never interrupted; the handlers' printing under the lock, which
\* touches nothing that a session or the orchestrator reads, is left out
SpecPar == InitPar /\ [][NextSessions]_vars

\* MaxParallel handlers printing under the shared lock, their clients sending
\* the sentinel only (no send can block on a full connection, so the timeout
\* of a send has no part in these behaviours), with no transport fault and
\* the acceptor never interrupted
NextSrv ==
    \/ Tick
    \/ OrchSpawn
    \/ OrchJoin
    \/ OrchPrintHeader
    \/ OrchPrintRow
    \/ \E i \in Sessions : ClientConnect(i)
    \/ \E i \in Sessions : LoopTop(i)
    \/ \E i \in Sessions : SleepDone(i)
    \/ \E i \in Sessions : ClientPush(i)
    \/ \E i \in Sessions : ClientRecv(i)
    \/ \E i \in Sessions : RecvTimeout(i)
    \/ \E i \in Sessions : ClientProcess(i)
    \/ \E i \in Sessions : Accept(i)
    \/ \E i \in Sessions : HandlerStart(i)
    \/ \E i \in Sessions : HandlerRecv(i)
    \/ \E i \in Sessions : HandlerAcquire(i)
    \/ \E i \in Sessions : HandlerPrint(i)
InitSrv == InitWith(SrvArgs)
SpecSrv == InitSrv /\ [][NextSrv]_vars

\* the exit status of the process, from the place where main() has ended:
\* 1 after sys.exit(1) (line 567), 0 when main() returns (after the error
\* message of line 578, or after client_mode), -1 while it has not ended
ExitStatus(at) ==
    IF at = "mode_error" THEN 1 ELSE IF at \in {"time_error", "done"} THEN 0 ELSE -1

\* lines 564-578: the checks of main() after parse_args(): the error message
\* and sys.exit(1) without a mode, server_mode(args) with -s, client_mode(args)
\* with a positive duration, the error message alone otherwise
Main ==
    /\ orch_pc = "main"
    /\ orch_pc' = IF ~args.server /\ ~args.client THEN "mode_error"
                  ELSE IF args.server THEN "server_mode"
                  ELSE IF args.time > 0 THEN "spawn"
                  ELSE "time_error"
    /\ UNCHANGED <<args, now, spawned, joined, results_list, header_printed, printed, row_idx,
                   cli_vars, chan_vars, srv_vars>>

\* the process from the call of main(), against a listening server
InitMain == InitAt(MainArgs, "main")
NextMain == Main \/ Next
SpecMain == InitMain /\ [][NextMain]_vars

\* one client session for every value of -n in ParseInputs
InitParse == InitWith(ParseArgs)
SpecParse == InitParse /\ [][Next]_vars

\* the steps of create_parallel_connections and of one client_connection
OrchStep == OrchSpawn \/ OrchJoin \/ OrchPrintHeader \/ OrchPrintRow
ClientStep(i) ==
    \/ ClientConnect(i) \/ LoopTop(i) \/ SleepDone(i) \/ ClientPush(i) \/ SendTimeout(i)
    \/ ClientRecv(i) \/ RecvTimeout(i) \/ ClientProcess(i)

\* Spec with the client side scheduled fairly and time passing; the server
\* side (acceptor, handlers) and the transport faults are under no obligation
FairSpec ==
    /\ Spec
    /\ WF_vars(Tick)
    /\ WF_vars(OrchStep)
    /\ \A i \in Sessions : WF_vars(ClientStep(i))


\* ------------------------------------------------------------------ claims
\* the byte cap of the command line (-n), in bytes
CapOf ==
    CASE args.num = <<"0", " ", "B">> -> 0
      [] args.num = <<"1", " ", "K", "B">> -> 1000
      [] args.num = <<"1", "5", "0", "0", " ", "B">> -> 1500
Capped == Len(args.num) > 0
\* the data bytes session i has handed to its connection
OnWire(i) == total_sent[i] + (IF pc[i] = "send" THEN data_to_send[i] - pending[i] ELSE 0)
\* the positions of the entries session i has appended
Entries(i) == { k \in 1..Len(results_list) : results_list[k].session = i }
AckBytes == <<"A", "C", "K", ":", " ", "B", "Y", "E">>
ByeBytes == <<"B", "Y", "E">>
Ended(i) == pc[i] \in {"done", "crashed"}

\* C1: with a byte cap, the data bytes a session has sent (the bytes of a
\* chunk being written included, the sentinel excluded) never exceed the cap
C1_SentWithinCap ==
    \A i \in Sessions : Capped => total_sent[i] <= CapOf /\ OnWire(i) <= CapOf
\* a cap that is no multiple of the chunk size has been reached
C1_Witness ==
    \E i \in Sessions : Capped /\ CapOf = 1500 /\ total_sent[i] = 1500 /\ data_to_send[i] = 500

\* C2: with a byte cap, when the send loop has ended at a reading of the
\* clock before the duration, the total of data bytes sent is the cap
C2_LoopEndsAtCap ==
    \A i \in Sessions :
        (/\ pc[i] \in {"sleep", "send_bye", "recv_ack", "process"}
         /\ Capped
         /\ elapsed_time[i] < args.time * Second) => total_sent[i] = CapOf
\* the loop has ended at a cap that is no multiple of the chunk size
C2_Witness ==
    \E i \in Sessions :
        /\ pc[i] = "send_bye" /\ Capped /\ CapOf = 1500
        /\ elapsed_time[i] < args.time * Second /\ total_sent[i] = 1500

\* C3: a handler sends the acknowledgement at most once, and only when the
\* chunk it has just received holds the whole sentinel; the acknowledgement
\* bytes on a connection are those of the acknowledgements sent
C3_AckOnceAfterBye ==
    \A i \in Sessions :
        /\ ack_sent[i] <= 1
        /\ ack_sent[i] = 1 => data[i].tail = ByeBytes
        /\ Len(s2c[i]) + Len(acknowledgement[i]) <= Len(AckBytes) * ack_sent[i]
\* an acknowledgement was sent for a sentinel that trails data in its chunk
C3_Witness == \E i \in Sessions : ack_sent[i] = 1 /\ data[i].zeros > 0

\* C4: a session has appended at most one entry, none before it has ended,
\* and a session that has ended has appended one exactly if the reply it
\* received is the 8 bytes ACK: BYE
C4_AppendIffExactAck ==
    \A i \in Sessions :
        /\ Cardinality(Entries(i)) <= 1
        /\ ~Ended(i) => Entries(i) = {}
        /\ Ended(i) => (Entries(i) # {} <=> acknowledgement[i] = AckBytes)
\* a session has received the exact acknowledgement and appended its entry
C4_Witness ==
    \E i \in Sessions : pc[i] = "done" /\ acknowledgement[i] = AckBytes /\ Entries(i) # {}

\* C5: a session whose wait for the acknowledgement timed out has returned
\* with its socket closed and without an entry; a session goes on to look at
\* a reply only when it has received one or the server has closed the connection
C5_TimeoutNoResult ==
    \A i \in Sessions :
        /\ outcome[i] = "timeout"
              => pc[i] = "done" /\ Entries(i) = {} /\ ~cli_open[i] /\ acknowledgement[i] = <<>>
        /\ pc[i] = "process" => acknowledgement[i] # <<>> \/ ~srv_open[i]
\* the wait of a session has timed out, the server not having read the sentinel
C5_Witness == \E i \in Sessions : outcome[i] = "timeout" /\ ack_sent[i] = 0

\* the orchestrator is past the joins
Joined == orch_pc \in {"header", "rows", "done"}
Failures == {"timeout", "bad_ack", "fault", "send_timeout"}

\* C6: the orchestrator prints the header and reads the collection only when
\* every spawned session has ended: from the header on, and whenever anything
\* has been printed or read, no session can still append
C6_ReadOnlyAfterAllEnded ==
    (Joined \/ header_printed > 0 \/ row_idx > 0 \/ printed # <<>>)
        => (spawned = args.parallel /\ \A i \in 1..args.parallel : Ended(i))
\* the orchestrator is reading the collection of a run with two sessions
C6_Witness == orch_pc = "rows" /\ args.parallel = 2 /\ Len(printed) = 1 /\ Len(results_list) = 2

\* the entry that session i appends, from its own total and elapsed time
EntryOf(i) ==
    [session |-> i, elapsed_time |-> elapsed_time[i],
     sent_data |-> [num |-> total_sent[i], den |-> 1000000],
     rate |-> [num |-> total_sent[i] * 80, den |-> 1000000 * elapsed_time[i]]]
C7_Collection ==
    /\ \A i \in Sessions : Cardinality(Entries(i)) <= 1
    /\ \A k \in 1..Len(results_list) : results_list[k] = EntryOf(results_list[k].session)
    /\ Joined => /\ \A i \in 1..args.parallel :
                       Entries(i) # {} <=> acknowledgement[i] = AckBytes
                 /\ Len(results_list) =
                       Cardinality({i \in 1..args.parallel : acknowledgement[i] = AckBytes})
    /\ header_printed = (IF orch_pc \in {"rows", "done"} THEN 1 ELSE 0)
    /\ printed = (IF orch_pc = "rows" THEN SubSeq(results_list, 1, row_idx)
                  ELSE IF orch_pc = "done" THEN results_list ELSE <<>>)
C7_AppendOnly ==
    \/ results_list' = results_list
    \/ /\ Len(results_list') = Len(results_list) + 1
       /\ SubSeq(results_list', 1, Len(results_list)) = results_list
       /\ ~Joined
\* C7: after the joins the collection holds one entry for every session that
\* received the acknowledgement and none for any other, as many entries as
\* successes, each entry as its session computed it; the collection only
\* grows, by one entry at its end, and never after the joins; the header is
\* printed once, and the rows printed are the entries in insertion order
C7_OneEntryPerSuccess == []C7_Collection /\ [][C7_AppendOnly]_vars
\* two sessions succeeded, the second spawned inserted first, both rows printed
C7_Witness ==
    /\ orch_pc = "done" /\ Len(printed) = 2
    /\ printed[1].session = 2 /\ printed[2].session = 1

\* C8: every spawned session eventually ends, whatever the server does, and
\* the orchestrator eventually has printed its report
C8_SessionsTerminate ==
    /\ \A i \in Sessions : (pc[i] # "unspawned") ~> Ended(i)
    /\ <>(orch_pc = "done")
\* the report is printed after a session whose connection was never accepted
\* and whose send timed out
C8_Witness ==
    orch_pc = "done" /\ pc[1] = "crashed" /\ outcome[1] = "send_timeout" /\ srv_pc[1] = "idle"

\* the transfer progress of session i
Progress(i) ==
    <<total_sent[i], last_interval_sent[i], interval_start[i], interval_stop[i]>>
\* session j takes a step
Moved(j) == pc'[j] # pc[j] \/ pending'[j] # pending[j]
C9_Frame ==
    \A i \in Sessions :
        /\ Progress(i)' # Progress(i) => Moved(i)
        /\ \A j \in Sessions \ {i} : Moved(j) => Progress(i)' = Progress(i)
        /\ \A k \in Entries(i) : k \in DOMAIN results_list' /\ results_list'[k] = results_list[k]
C9_ValidAckRecorded ==
    \A i \in Sessions : (Ended(i) /\ acknowledgement[i] = AckBytes) => Entries(i) # {}
\* C9: the transfer progress of a session changes only in a step of that
\* session, never in a step (a failure included) of another one; an entry
\* stays in the collection as it was inserted; and a session that has ended
\* with a valid acknowledgement has its entry, whatever its siblings did
C9_SiblingsUnaffected == []C9_ValidAckRecorded /\ [][C9_Frame]_vars
\* one session failed after its sibling had made progress, and the sibling's
\* result is in the collection
C9_Witness ==
    \E i, j \in Sessions :
        /\ i # j /\ outcome[j] \in Failures /\ Entries(j) = {}
        /\ outcome[i] = "ok" /\ Entries(i) # {} /\ total_sent[i] = 1000

\* C10: a handler whose receive loop ended on an empty receive has sent no
\* acknowledgement, has closed the connection and goes on to print its final
\* result; the client of the connection has no entry in the collection
C10_EmptyReceive ==
    \A i \in Sessions :
        (srv_pc[i] \notin {"idle", "dropped", "start", "recv"} /\ data[i] = NoData)
            => /\ ack_sent[i] = 0
               /\ ~srv_open[i]
               /\ Entries(i) = {}
               /\ srv_pc[i] \in {"lock", "print", "done"}

\* C11: the progress rows of a session are printed only with an interval
\* length I > 0; the k-th row printed has the window [(k-1)*I, k*I), so the
\* first is [0, I), every window has length I and starts at the stop of the
\* one before; and a row is printed only once the elapsed time measured by
\* the session is at least the stop of its window
C11_Windows ==
    \A i \in Sessions :
        \A k \in 1..Len(rows[i]) :
            /\ args.interval > 0
            /\ rows[i][k].start = (k - 1) * args.interval * 10
            /\ rows[i][k].stop - rows[i][k].start = args.interval * 10
            /\ k > 1 => rows[i][k].start = rows[i][k - 1].stop
            /\ rows[i][k].stop <= elapsed_time[i]
\* a session has printed two rows
C11_Witness == \E i \in Sessions : Len(rows[i]) = 2 /\ rows[i][2].start = 10

\* handler i writes to the output in this step: the two unlocked prints at
\* its start, or the end of its block of header and final result
Writes(i) ==
    \/ srv_pc[i] = "start" /\ srv_pc'[i] # "start"
    \/ srv_pc[i] = "print" /\ srv_pc'[i] # "print"
\* C12: while a handler is writing its block of header and final result,
\* no other handler writes anything to the output
C12_BlockUninterrupted ==
    [][\A i, j \in Sessions : (i # j /\ srv_pc[j] = "print") => ~Writes(i)]_vars
\* the blocks themselves exclude one another: at most one handler is inside
\* the lock, and that handler is its holder
C12_BlocksExclusive ==
    /\ Cardinality({i \in Sessions : srv_pc[i] = "print"}) <= 1
    /\ \A i \in Sessions : srv_pc[i] = "print" <=> print_lock = i

\* C13: once a pass of the loop has measured an elapsed time that is at
\* least the duration, the session is out of its send loop: it is in no pass
\* that sends a chunk and starts no further pass, with a byte cap or without
C13_StopsAtDuration ==
    \A i \in Sessions :
        elapsed_time[i] >= args.time * 10 => pc[i] \notin {"loop", "send"}
\* the loop was left at the duration with the byte cap not yet reached
C13_Witness ==
    \E i \in Sessions :
        /\ pc[i] = "send_bye" /\ elapsed_time[i] >= args.time * 10
        /\ Capped /\ total_sent[i] < CapOf

\* the accept loop has exited
LoopExited == acc_pc \in {"stopped", "faulted"}
\* a handler process is started for connection i in this step
Dispatched(i) == srv_pc'[i] = "start" /\ srv_pc[i] # "start"
C14_AfterExit ==
    LoopExited =>
        /\ acc_pc' = acc_pc
        /\ \A i \in Sessions :
              /\ ~Dispatched(i)
              /\ srv_pc[i] = "idle" => srv_pc'[i] = "idle"
              /\ (pc[i] = "connect" /\ pc'[i] # "connect") => (pc'[i] = "crashed" /\ ~srv_open'[i])
C14_DispatchOnce ==
    \A i \in Sessions :
        /\ Dispatched(i) => srv_pc[i] = "idle"
        /\ srv_pc[i] # "idle" => srv_pc'[i] # "idle"
        /\ srv_pc[i] = "dropped" => srv_pc'[i] = "dropped"
\* C14: once the accept loop has exited, by interrupt or by fault, the
\* listening socket stays closed: no connection is accepted or dispatched
\* any more and a connect is refused; a connection is dispatched to a handler
\* at most once, and one that was accepted when the exit was raised before
\* the start of its handler never gets one
C14_ClosedOnExit == [][C14_AfterExit /\ C14_DispatchOnce]_vars
\* the loop has exited by a fault after a connection was dispatched and handled
C14_Witness == acc_pc = "faulted" /\ srv_pc[1] = "done" /\ pc[1] = "done"
\* C14 as stated: when the accept loop has exited, every connection accepted
\* before has been dispatched to a handler
C14_AllAcceptedDispatched == LoopExited => \A i \in Sessions : srv_pc[i] # "dropped"

\* C15: when main() has ended for a command line without -s and -c, or for
\* a client with a duration that is not positive, the exit status is not
\* zero and no session was started
C15_ErrorExit ==
    (/\ orch_pc # "main"
     /\ ~args.server
     /\ ~args.client \/ args.time <= 0)
        => /\ ExitStatus(orch_pc) > 0
           /\ spawned = 0
           /\ \A i \in Sessions : pc[i] = "unspawned"

\* what parse_num_bytes is to do with the value of -n of the command line
ExpectedParse ==
    CASE args.num = <<>> -> [kind |-> "None", value |-> 0]
      [] args.num = <<"0", " ", "B">> -> [kind |-> "int", value |-> 0]
      [] args.num = <<"1", " ", "K", "B">> -> [kind |-> "int", value |-> 1000]
      [] args.num = <<"1", "5", "0", "0", " ", "B">> -> [kind |-> "int", value |-> 1500]
      [] args.num = <<"2", " ", "M", "B">> -> [kind |-> "int", value |-> 2000000]
      [] args.num = <<" ", "1", " ", " ", "K", "B", " ">> -> [kind |-> "int", value |-> 1000]
      [] args.num = <<"-", "1", " ", "B">> -> [kind |-> "int", value |-> -1]
      [] OTHER -> [kind |-> "ValueError", value |-> 0]
\* C16: a session given '<n> B', '<n> KB' or '<n> MB' starts its loop with
\* n, n * 1000 or n * 1000000 bytes remaining (the bytes it has sent and the
\* bytes that remain add up to that); a session given an unknown unit, a
\* number that is no integer or a wrong number of tokens ends in the
\* ValueError of parse_num_bytes and never enters its loop; and
\* parse_num_bytes returns None for the empty string
C16_Parse ==
    /\ parse_num_bytes(<<>>) = [kind |-> "None", value |-> 0]
    /\ \A i \in Sessions :
          /\ ExpectedParse.kind = "ValueError" =>
                /\ pc[i] \in {"unspawned", "connect", "crashed"}
                /\ pc[i] = "crashed" => outcome[i] \in {"value_error", "fault"}
                /\ total_sent[i] = 0
          /\ ExpectedParse.kind = "int" =>
                /\ outcome[i] # "value_error"
                /\ pc[i] \in {"loop", "sleep", "send_bye", "recv_ack", "process", "done"}
                      => remaining_bytes[i] + total_sent[i] = ExpectedParse.value
                /\ pc[i] = "send"
                      => remaining_bytes[i] + total_sent[i] + data_to_send[i] = ExpectedParse.value
          /\ ExpectedParse.kind = "None" => outcome[i] # "value_error" /\ remaining_bytes[i] = 0
\* a session given " 1  KB " has sent its 1000 bytes and has none remaining
C16_Witness ==
    \E i \in Sessions :
        /\ args.num = <<" ", "1", " ", " ", "K", "B", " ">>
        /\ pc[i] = "done" /\ total_sent[i] = 1000 /\ remaining_bytes[i] = 0

\* C17: when a session has recorded its result, the handler of its
\* connection has credited exactly the data bytes the session sent
C17_CreditEqualsSent ==
    \A i \in Sessions : Entries(i) # {} => total_received[i] = total_sent[i]
\* a result is recorded for 1500 bytes whose last chunk at the server held
\* data followed by the sentinel
C17_Witness ==
    \E i \in Sessions :
        /\ Entries(i) # {} /\ total_sent[i] = 1500
        /\ data[i].zeros > 0 /\ data[i].tail = ByeBytes

\* C18: once a session has sent the whole sentinel and the handler of its
\* connection has received every byte of it, in whatever chunks, the handler
\* has acknowledged it
C18_SentinelDetected ==
    \A i \in Sessions :
        (pc[i] \in {"recv_ack", "process", "done"} /\ InFlight(i) = 0) => ack_sent[i] = 1

\* C19: no session is ended by a timeout of a send, of a data chunk or of
\* the sentinel: a session that a timeout has ended was waiting for the
\* acknowledgement
C19_OnlyAckWaitTimesOut ==
    \A i \in Sessions :
        /\ outcome[i] # "send_timeout"
        /\ pc[i] = "crashed" => pending[i] = 0 \/ outcome[i] = "fault"

\* the calls of calculate_rate by the client: every row printed is for an
\* interval length > 0, and the final result is computed from an elapsed
\* time of at least the floor of 0.1 s
C20_ClientCalls ==
    \A i \in Sessions :
        /\ \A k \in 1..Len(rows[i]) : rows[i][k].rate.den > 0
        /\ (pc[i] = "process" /\ acknowledgement[i] = AckBytes) => now - start_time[i] >= 1
        /\ \A k \in Entries(i) : results_list[k].elapsed_time >= 1 /\ results_list[k].rate.den > 0
\* the call of calculate_rate by a handler whose receive loop has ended
C20_ServerCalls ==
    \A i \in Sessions :
        srv_pc[i] \in {"crashed", "lock", "print", "done"} => srv_elapsed[i] > 0
\* C20: every call of calculate_rate is made with an elapsed time > 0, by
\* the interval reporter, for the final result of the client and for the
\* final result of the server
C20_ElapsedPositive == C20_ClientCalls /\ C20_ServerCalls

\* C21: with an interval length I > 0, when the send loop has ended because
\* the duration was reached, one row has been printed for every boundary
\* k * I that is not later than the elapsed time measured at the exit
C21_RowPerBoundary ==
    \A i \in Sessions :
        (/\ args.interval > 0
         /\ pc[i] \in {"sleep", "send_bye", "recv_ack", "process"}
         /\ elapsed_time[i] >= args.time * 10)
            => Len(rows[i]) = elapsed_time[i] \div (args.interval * 10)

\* the bytes reported by a sequence of rows, added up
RECURSIVE RowBytes(_)
RowBytes(r) == IF r = <<>> THEN 0 ELSE r[1].sent.num + RowBytes(Tail(r))
\* C22: the marker of the last row is between 0 and the total sent, the
\* bytes of the rows printed so far add up to it, and every row reports a
\* byte count that is not negative
C22_MarkerAndRows ==
    \A i \in Sessions :
        /\ 0 <= last_interval_sent[i]
        /\ last_interval_sent[i] <= total_sent[i]
        /\ RowBytes(rows[i]) = last_interval_sent[i]
        /\ \A k \in 1..Len(rows[i]) : rows[i][k].sent.num >= 0
\* two rows are printed, each for the bytes sent in its own interval
C22_Witness ==
    \E i \in Sessions :
        /\ Len(rows[i]) = 2 /\ rows[i][1].sent.num = 1000 /\ rows[i][2].sent.num = 500
        /\ last_interval_sent[i] = 1500

====
